---- MODULE Spec2Model ----
(***************************************************************************)
(* Model of MonarkProcessingCommand (src/monark_processing/command.py):   *)
(* hex_to_int, calc_window and transform.                                  *)
(*                                                                         *)
(* Representation.                                                         *)
(*  - A Python str is a sequence of one-character strings.                 *)
(*  - The int returned by hex_to_int is [ok, neg, hi, lo]: ok = FALSE is   *)
(*    the ValueError of int(); otherwise the value is                      *)
(*    (-1)^neg * (hi * 65536 + lo), kept in two 16-bit limbs because the   *)
(*    model checker's integers are 32-bit signed and 0xFFFFFFFF is not.    *)
(*  - A float64 is [k, s, v]: k = "nan", "inf" (sign s), "num" (the exact  *)
(*    value v in the column's unit, s the sign, also of a zero) or "fin"   *)
(*    (finite and non-zero, magnitude not tracked: the power columns,      *)
(*    whose values are multiples of pi).                                   *)
(*  - Times: time_elapsed is kept in ticks (1/57600 s), time_test and      *)
(*    time_test_diff in half ticks (1/115200 s), so 0.5 s is 57600 half    *)
(*    ticks. Rational arithmetic is exact; binary rounding of the          *)
(*    float64 operations is not modelled.                                  *)
(***************************************************************************)
EXTENDS Integers, Sequences, FiniteSets, TLC

VARIABLES
    df,         \* transform: the input table, a sequence of rows
    pc,         \* transform: position in the method
    idx,        \* transform: number of the row the loop is at (1-based)
    secs,       \* transform: decoded ticks of the current row
    bufs,       \* transform: chunks of the current row
    res_df,     \* transform: the frame of the current row
    dfs,        \* transform: the frames appended so far
    progress,   \* transform: the calls of log_progress, in order
    result,     \* transform: the returned dataset (pc = "returned")
    err,        \* transform: the exception that left the method (pc = "raised")
    hex_str,    \* hex_to_int: the argument
    hex_v,      \* hex_to_int: the 32-bit value hex_str encodes, as <<hi, lo>>, or <<>>
    hex_out,    \* hex_to_int: the call's outcome
    cw_args,    \* calc_window: the arguments
    cw_out      \* calc_window: the call's outcome

transformVars == <<df, pc, idx, secs, bufs, res_df, dfs, progress, result, err>>
hexVars == <<hex_str, hex_v, hex_out>>
cwVars == <<cw_args, cw_out>>
vars == <<df, pc, idx, secs, bufs, res_df, dfs, progress, result, err,
          hex_str, hex_v, hex_out, cw_args, cw_out>>

(***************************************************************************)
(* Python str and int(str, 16)                                             *)
(***************************************************************************)
HexChars == <<"0", "1", "2", "3", "4", "5", "6", "7", "8", "9",
              "A", "B", "C", "D", "E", "F">>
LowerHexChars == <<"0", "1", "2", "3", "4", "5", "6", "7", "8", "9",
                   "a", "b", "c", "d", "e", "f">>

\* _PyLong_DigitValue restricted to base 16: the digit's value, or -1.
DigitValue(c) ==
    IF \E i \in 1..16 : HexChars[i] = c
    THEN (CHOOSE i \in 1..16 : HexChars[i] = c) - 1
    ELSE IF \E i \in 1..16 : LowerHexChars[i] = c
    THEN (CHOOSE i \in 1..16 : LowerHexChars[i] = c) - 1
    ELSE -1

IsSpace(c) == c = " "

RECURSIVE LStrip(_)
LStrip(s) == IF s # <<>> /\ IsSpace(Head(s)) THEN LStrip(Tail(s)) ELSE s

RECURSIVE RStrip(_)
RStrip(s) ==
    IF s # <<>> /\ IsSpace(s[Len(s)]) THEN RStrip(SubSeq(s, 1, Len(s) - 1)) ELSE s

\* s[a:b] of Python for 0 <= a <= b (b is clamped to the length).
Slice(s, a, b) == SubSeq(s, a + 1, IF b > Len(s) THEN Len(s) ELSE b)

PyValueError == [ok |-> FALSE, neg |-> FALSE, hi |-> 0, lo |-> 0]

\* The digit loop of int(): digits with single underscores between them.
RECURSIVE ScanDigits(_, _, _, _)
ScanDigits(s, prev, hi, lo) ==
    IF s = <<>>
    THEN IF prev = "_" \/ prev = ""
         THEN PyValueError
         ELSE [ok |-> TRUE, neg |-> FALSE, hi |-> hi, lo |-> lo]
    ELSE LET c == Head(s) IN
         IF c = "_"
         THEN IF prev = "_" \/ prev = ""
              THEN PyValueError
              ELSE ScanDigits(Tail(s), c, hi, lo)
         ELSE IF DigitValue(c) < 0
         THEN PyValueError
         ELSE LET x == lo * 16 + DigitValue(c) IN
              ScanDigits(Tail(s), c, hi * 16 + (x \div 65536), x % 65536)

\* int(s, 16): blanks stripped, an optional sign, an optional 0x / 0X prefix
\* (one underscore may follow it), then the digits.
PyInt16(s) ==
    LET a == RStrip(LStrip(s))
        signed == a # <<>> /\ Head(a) \in {"+", "-"}
        neg == a # <<>> /\ Head(a) = "-"
        b == IF signed THEN Tail(a) ELSE a
        prefixed == Len(b) >= 2 /\ b[1] = "0" /\ b[2] \in {"x", "X"}
        c == IF prefixed THEN Tail(Tail(b)) ELSE b
        d == IF prefixed /\ c # <<>> /\ Head(c) = "_" THEN Tail(c) ELSE c
        r == ScanDigits(d, "", 0, 0)
    IN  IF r.ok THEN [r EXCEPT !.neg = neg /\ (r.hi # 0 \/ r.lo # 0)] ELSE r

\* hex_to_int without the byte swap of line 21.
hex_to_int_noswap(s) == PyInt16(s)

\* command.py:16-22
hex_to_int(s) ==
    PyInt16(Slice(s, 6, Len(s)) \o Slice(s, 4, 6) \o Slice(s, 2, 4) \o Slice(s, 0, 2))

\* The Python int a successful hex_to_int returned, as a model integer.
IntOf(r) == (IF r.neg THEN -1 ELSE 1) * (r.hi * 65536 + r.lo)

(***************************************************************************)
(* float64 values                                                          *)
(***************************************************************************)
NaN == [k |-> "nan", s |-> 1, v |-> 0]
Inf(s) == [k |-> "inf", s |-> s, v |-> 0]
Num(v) == [k |-> "num", s |-> IF v < 0 THEN -1 ELSE 1, v |-> v]
Zero(s) == [k |-> "num", s |-> s, v |-> 0]
Fin(s) == [k |-> "fin", s |-> s, v |-> 0]

IsNaN(x) == x.k = "nan"
IsInf(x) == x.k = "inf"
IsZero(x) == x.k = "num" /\ x.v = 0
Sgn(n) == IF n < 0 THEN -1 ELSE 1
Abs(n) == IF n < 0 THEN -n ELSE n

\* Round n / d (d # 0) to the nearest integer, ties to the even one: round() of
\* Python 3 and of numpy.
RoundHalfEven(n, d) ==
    LET nn == IF d < 0 THEN -n ELSE n
        dd == Abs(d)
        q == nn \div dd
        r == nn - q * dd
    IN  IF 2 * r < dd THEN q
        ELSE IF 2 * r > dd THEN q + 1
        ELSE IF q % 2 = 0 THEN q ELSE q + 1

\* An int64 column times a float64 column (the product is a float64).
FMulInt(m, x) ==
    IF IsNaN(x) THEN NaN
    ELSE IF IsInf(x) THEN (IF m = 0 THEN NaN ELSE Inf(Sgn(m) * x.s))
    ELSE IF m * x.v = 0 THEN Zero(Sgn(m) * x.s)
    ELSE Num(m * x.v)

\* a / b of IEEE 754, magnitudes of finite quotients not tracked.
FDiv(a, b) ==
    IF IsNaN(a) \/ IsNaN(b) THEN NaN
    ELSE IF IsInf(a) THEN (IF IsInf(b) THEN NaN ELSE Inf(a.s * b.s))
    ELSE IF IsInf(b) THEN Zero(a.s * b.s)
    ELSE IF IsZero(b) THEN (IF IsZero(a) THEN NaN ELSE Inf(a.s * b.s))
    ELSE IF IsZero(a) THEN Zero(a.s * b.s)
    ELSE Fin(a.s * b.s)

\* a * b of IEEE 754, magnitudes of finite products not tracked.
FMul(a, b) ==
    IF IsNaN(a) \/ IsNaN(b) THEN NaN
    ELSE IF IsInf(a) \/ IsInf(b)
    THEN (IF IsZero(a) \/ IsZero(b) THEN NaN ELSE Inf(a.s * b.s))
    ELSE IF IsZero(a) \/ IsZero(b) THEN Zero(a.s * b.s)
    ELSE Fin(a.s * b.s)

\* a + b of IEEE 754; the sign of a finite sum of opposite signs is not tracked.
FAdd(a, b) ==
    IF IsNaN(a) \/ IsNaN(b) THEN NaN
    ELSE IF IsInf(a) THEN (IF IsInf(b) /\ b.s # a.s THEN NaN ELSE a)
    ELSE IF IsInf(b) THEN b
    ELSE IF IsZero(a) THEN b
    ELSE IF IsZero(b) THEN a
    ELSE Fin(IF a.s = b.s THEN a.s ELSE 0)

\* 1 / d1 ** 2 - 1 / d2 ** 2 for two float64 tick differences (lines 104-105).
RecipSqDiff(d1, d2) ==
    IF IsNaN(d1) \/ IsNaN(d2) THEN NaN
    ELSE IF d1.v = 0 /\ d2.v = 0 THEN NaN
    ELSE IF d1.v = 0 THEN Inf(1)
    ELSE IF d2.v = 0 THEN Inf(-1)
    ELSE IF Abs(d1.v) = Abs(d2.v) THEN Zero(1)
    ELSE IF Abs(d1.v) < Abs(d2.v) THEN Fin(1) ELSE Fin(-1)

(***************************************************************************)
(* The frame of one attempt: command.py:69-113                             *)
(***************************************************************************)
\* Timer frequency: ticks per second (line 78). 0.5 s is F half ticks.
F == 57600

\* Line 76 with a division that yields an infinity instead of raising, and a
\* round() that maps it to 0.
MagnetsOf_NoRaise(sm) ==
    IF 52 * sm = 0
    THEN [ok |-> TRUE, v |-> 0]
    ELSE [ok |-> TRUE, v |-> RoundHalfEven(14 * 10000, 52 * sm)]

\* Line 76: round(14 / (52 * SamplingMagnets / 10000)). The row of iterrows()
\* holds Python numbers, so a zero divisor raises ZeroDivisionError.
MagnetsOf(sm) ==
    IF 52 * sm = 0
    THEN [ok |-> FALSE, v |-> 0]
    ELSE [ok |-> TRUE, v |-> RoundHalfEven(14 * 10000, 52 * sm)]

\* BrakeWeight * 9.81 * math.pi * 0.514 (lines 88-91).
BrakeNumerator(bw) == IF bw = 0 THEN Zero(1) ELSE Fin(Sgn(bw))

\* Row i (1-based) of res_df after line 113, for the ticks t of input row `row`
\* with Magnets m. `index` is the pandas index label (0-based).
FrameRow(i, t, hex, row, m) ==
    LET n == Len(t)
        te(j) == t[j] - t[1]
        tt == IF i = 1 THEN NaN ELSE Num(te(i) + te(i - 1))
        td == IF i = 1 THEN NaN ELSE Num(t[i] - t[i - 1])
        rpmDen == FMulInt(m * 52, td)
        ttd == IF i <= 2 THEN NaN ELSE Num((te(i) + te(i - 1)) - (te(i - 1) + te(i - 2)))
        t2 == IF i <= 2 THEN NaN ELSE Num(t[i] - t[i - 2])
        d2 == IF i <= 2 THEN NaN ELSE Num(t[i - 1] - t[i - 2])
    IN  [index |-> i - 1,
         timer |-> t[i],
         hex |-> hex[i],
         Attempt |-> row.BoutNumber,
         LastName |-> row.LastName,
         Inertia |-> 91,
         Magnets |-> m,
         BrakeWeight |-> row.BrakeWeight,
         time_elapsed |-> Num(te(i)),
         time_test |-> tt,
         time_diff |-> td,
         rpm |-> IF IsNaN(rpmDen) THEN NaN
                 ELSE IF IsZero(rpmDen) THEN Inf(rpmDen.s)
                 ELSE Num(RoundHalfEven(14 * 60 * F, rpmDen.v)),
         time_test_diff |-> ttd,
         power_brake |-> FDiv(BrakeNumerator(row.BrakeWeight), FMulInt(m, ttd)),
         power_kinetic |-> FMul(FDiv(Fin(1), FMulInt(m * m, t2)), RecipSqDiff(td, d2)),
         time_recorded |->
             Num(RoundHalfEven((te(i) - te(n)) * 100 + row.Duration * 100 * F, F))]

\* Lines 69-113 for a non-empty tick list.
Frame(t, hex, row, m) == [i \in 1..Len(t) |-> FrameRow(i, t, hex, row, m)]

FloatColumns == {"time_elapsed", "time_test", "time_diff", "rpm", "time_test_diff",
                 "power_brake", "power_kinetic", "time_recorded"}

\* A row DataFrame.dropna() removes: a NaN or a None in any column.
HasNA(r) == r.LastName = "None" \/ \E c \in FloatColumns : IsNaN(r[c])

\* dropna() that also removes the rows holding an infinity.
DropNaFinite(frame) ==
    LET Keep(r) == ~HasNA(r) /\ \A c \in FloatColumns : ~IsInf(r[c])
    IN SelectSeq(frame, Keep)

\* DataFrame.dropna() (line 114)
DropNa(frame) ==
    LET Keep(r) == ~HasNA(r) IN SelectSeq(frame, Keep)

\* .iloc[1:] (line 114)
ILocFrom1(frame) == IF frame = <<>> THEN <<>> ELSE Tail(frame)

(***************************************************************************)
(* calc_window: command.py:24-50                                           *)
(***************************************************************************)
\* The mean of power_brake + power_kinetic: the rows summed (index labels) and
\* the divisor.
Mean(of, n) == [k |-> "mean", of |-> of, n |-> n]

\* Lines 35-38: the rows strictly inside (current_time - 0.5, current_time + 0.5).
\* A comparison with NaN is False.
SampleDf(current_time, frame) ==
    LET In(r) == /\ ~IsNaN(r.time_test) /\ ~IsNaN(current_time)
                 /\ r.time_test.v > current_time.v - F
                 /\ r.time_test.v < current_time.v + F
    IN SelectSeq(frame, In)

\* Series.sum() / shape[0], rounded to 2 decimals, of float64 values given as a
\* sequence: sum() skips the NaN terms (skipna=True), the divisor counts them.
\* exact = TRUE: the terms are exact numbers and the result is in hundredths.
SumOverCount(terms, labels, exact) ==
    LET n == Len(terms)
        kept == {i \in 1..n : ~IsNaN(terms[i])}
        pinf == \E i \in kept : IsInf(terms[i]) /\ terms[i].s = 1
        ninf == \E i \in kept : IsInf(terms[i]) /\ terms[i].s = -1
        RECURSIVE Total(_)
        Total(i) == IF i = 0 THEN 0
                    ELSE Total(i - 1) + (IF i \in kept THEN terms[i].v ELSE 0)
    IN  IF n = 0 THEN NaN
        ELSE IF pinf /\ ninf THEN NaN
        ELSE IF pinf THEN Inf(1)
        ELSE IF ninf THEN Inf(-1)
        ELSE IF exact THEN Num(RoundHalfEven(100 * Total(n), n))
        ELSE Mean({labels[i] : i \in kept}, n)

\* calc_window: the value returned. No path of the method raises: the else
\* branch of line 49 builds an AssertionError and drops it.
calc_window(current_time, frame, type_measurement) ==
    LET sample_df == SampleDf(current_time, frame)
        n == Len(sample_df)
        labels == [i \in 1..n |-> sample_df[i].index]
    IN  IF type_measurement = "power"
        THEN SumOverCount(
                 [i \in 1..n |-> FAdd(sample_df[i].power_brake, sample_df[i].power_kinetic)],
                 labels, FALSE)
        ELSE IF type_measurement = "rpm"
        THEN SumOverCount([i \in 1..n |-> sample_df[i].rpm], labels, TRUE)
        ELSE Num(0)

\* Lines 114-120: the finished series of one attempt.
Smooth(frame) ==
    LET kept == ILocFrom1(DropNa(frame))
    IN [i \in 1..Len(kept) |->
           kept[i] @@ [power_centered |-> calc_window(kept[i].time_test, kept, "power"),
                       rpm_centered |-> calc_window(kept[i].time_test, kept, "rpm")]]

(***************************************************************************)
(* transform: command.py:52-124                                            *)
(***************************************************************************)
NoError == [type |-> "none", line |-> 0, row |-> 0]
Raised(type, line, row) == [type |-> type, line |-> line, row |-> row]

\* The chunks of a log with the trailing fragment as a last, short chunk.
Chunks_Ceil(log) == [i \in 1..((Len(log) + 7) \div 8) |-> Slice(log, (i - 1) * 8, i * 8)]

\* Lines 63-67: the chunks of a log, range(len(log) // 8) of them.
Chunks(log) == [i \in 1..(Len(log) \div 8) |-> Slice(log, (i - 1) * 8, i * 8)]

\* pd.concat(dfs) that puts the later frames first.
ConcatReversed(frames) ==
    LET RECURSIVE Cat(_)
        Cat(i) == IF i > Len(frames) THEN <<>> ELSE Cat(i + 1) \o frames[i]
    IN Cat(1)

\* pd.concat(dfs) for a non-empty list (line 124).
Concat(frames) ==
    LET RECURSIVE Cat(_)
        Cat(i) == IF i = 0 THEN <<>> ELSE Cat(i - 1) \o frames[i]
    IN Cat(Len(frames))

\* Line 57 and line 59.
Start ==
    /\ pc = "call"
    /\ progress' = Append(progress, [message |-> "Start monark_process command",
                                     stage |-> 0, total_stages |-> 0])
    /\ dfs' = <<>>
    /\ idx' = 1
    /\ pc' = "loop"
    /\ UNCHANGED <<df, secs, bufs, res_df, result, err, hexVars, cwVars>>

\* Lines 60-67 with the ValueError caught and the row skipped.
Decode_SkipBad ==
    /\ pc = "loop"
    /\ idx <= Len(df)
    /\ LET chunks == Chunks(df[idx].FlyWheelLog)
           decoded == [i \in 1..Len(chunks) |-> hex_to_int(chunks[i])]
           bad == {i \in 1..Len(chunks) : ~decoded[i].ok}
       IN  IF bad # {}
           THEN /\ bufs' = <<>>
                /\ secs' = <<>>
                /\ idx' = idx + 1
                /\ pc' = "loop"
           ELSE /\ bufs' = chunks
                /\ secs' = [i \in 1..Len(chunks) |-> IntOf(decoded[i])]
                /\ idx' = idx
                /\ pc' = "decoded"
    /\ UNCHANGED <<df, err, res_df, dfs, progress, result, hexVars, cwVars>>

\* Lines 60-67: the next row of iterrows() and its decoding loop. The first
\* chunk int() rejects raises ValueError out of transform.
Decode ==
    /\ pc = "loop"
    /\ idx <= Len(df)
    /\ LET chunks == Chunks(df[idx].FlyWheelLog)
           decoded == [i \in 1..Len(chunks) |-> hex_to_int(chunks[i])]
           bad == {i \in 1..Len(chunks) : ~decoded[i].ok}
       IN  IF bad # {}
           THEN LET first == CHOOSE i \in bad : \A j \in bad : i <= j IN
                /\ bufs' = SubSeq(chunks, 1, first)
                /\ secs' = [i \in 1..(first - 1) |-> IntOf(decoded[i])]
                /\ err' = Raised("ValueError", 66, idx)
                /\ pc' = "raised"
           ELSE /\ bufs' = chunks
                /\ secs' = [i \in 1..Len(chunks) |-> IntOf(decoded[i])]
                /\ err' = err
                /\ pc' = "decoded"
    /\ UNCHANGED <<df, idx, res_df, dfs, progress, result, hexVars, cwVars>>

\* Lines 69-113: the frame and its derived columns. Line 76 raises
\* ZeroDivisionError for a zero SamplingMagnets, line 78 raises IndexError when
\* no tick was decoded.
Build ==
    /\ pc = "decoded"
    /\ LET m == MagnetsOf(df[idx].SamplingMagnets) IN
       IF ~m.ok
       THEN /\ err' = Raised("ZeroDivisionError", 76, idx)
            /\ pc' = "raised"
            /\ res_df' = <<>>
       ELSE IF secs = <<>>
       THEN /\ err' = Raised("IndexError", 78, idx)
            /\ pc' = "raised"
            /\ res_df' = <<>>
       ELSE /\ res_df' = Frame(secs, bufs, df[idx], m.v)
            /\ err' = err
            /\ pc' = "built"
    /\ UNCHANGED <<df, idx, secs, bufs, dfs, progress, result, hexVars, cwVars>>

\* Lines 114-121: drop, smooth, append.
Finish ==
    /\ pc = "built"
    /\ res_df' = Smooth(res_df)
    /\ dfs' = Append(dfs, res_df')
    /\ idx' = idx + 1
    /\ pc' = "loop"
    /\ UNCHANGED <<df, secs, bufs, progress, result, err, hexVars, cwVars>>

\* Lines 123-124, after the last row: the completion notice, then pd.concat,
\* which raises ValueError for an empty list of frames.
Return ==
    /\ pc = "loop"
    /\ idx > Len(df)
    /\ progress' = Append(progress, [message |-> "Monark dataset has been processed",
                                     stage |-> 1, total_stages |-> 1])
    /\ IF dfs = <<>>
       THEN /\ err' = Raised("ValueError", 124, 0)
            /\ pc' = "raised"
            /\ result' = result
       ELSE /\ result' = Concat(dfs)
            /\ pc' = "returned"
            /\ err' = err
    /\ UNCHANGED <<df, idx, secs, bufs, res_df, dfs, hexVars, cwVars>>

Next == Start \/ Decode \/ Build \/ Finish \/ Return

(***************************************************************************)
(* Inputs                                                                  *)
(***************************************************************************)
MaxAttempts == 2
MaxTicks == 5

\* A byte as two hex digits.
Hex2(b) == <<HexChars[(b \div 16) + 1], HexChars[(b % 16) + 1]>>

\* The 32-bit value hi * 65536 + lo written as four bytes, the byte order
\* reversed, hex-encoded: what the device writes into FlyWheelLog.
EncodeLE(hi, lo) ==
    Hex2(lo % 256) \o Hex2(lo \div 256) \o Hex2(hi % 256) \o Hex2(hi \div 256)

ChunkOf(t) == EncodeLE(t \div 65536, t % 65536)

RECURSIVE LogOf(_)
LogOf(ticks) == IF ticks = <<>> THEN <<>> ELSE ChunkOf(Head(ticks)) \o LogOf(Tail(ticks))

BadChunk == <<"0", "0", "0", "0", "0", "0", "0", "g">>

\* 0, 0.5 s, 1 s and 2 s of timer ticks.
TickVals == {0, 28800, 57600, 115200}

InputRow(log, n, name, sm, bw) ==
    [FlyWheelLog |-> log, BoutNumber |-> n, LastName |-> name,
     SamplingMagnets |-> sm, BrakeWeight |-> bw, Duration |-> 5]

HexIdle ==
    /\ hex_str = <<>>
    /\ hex_v = <<>>
    /\ hex_out = [done |-> FALSE, ok |-> FALSE, neg |-> FALSE, hi |-> 0, lo |-> 0]

CwIdle ==
    /\ cw_args = [current_time |-> NaN, frame |-> <<>>, type_measurement |-> ""]
    /\ cw_out = [status |-> "idle", value |-> NaN]

TransformInit(table, at) ==
    /\ df = table
    /\ pc = at
    /\ idx = 0
    /\ secs = <<>>
    /\ bufs = <<>>
    /\ res_df = <<>>
    /\ dfs = <<>>
    /\ progress = <<>>
    /\ result = <<>>
    /\ err = NoError

\* The other fields of a one-row table: every SamplingMagnets with every
\* BrakeWeight, a missing name, and a log that ends in a fragment.
AttemptConfigs ==
    {[name |-> "Doe", sm |-> sm, bw |-> bw, f |-> <<>>] : sm \in {0, 2692, 10000}, bw \in {0, 2}}
        \cup {[name |-> "None", sm |-> 2692, bw |-> 2, f |-> <<>>]}
        \cup {[name |-> "Doe", sm |-> sm, bw |-> 2, f |-> <<"0", "g", "1">>] : sm \in {0, 2692}}

\* One attempt, any ticks: a log of up to MaxTicks chunks.
InitAttempt ==
    /\ \E n \in 0..MaxTicks :
          \E t \in [1..n -> TickVals], c \in AttemptConfigs :
              TransformInit(<<InputRow(LogOf(t) \o c.f, 1, c.name, c.sm, c.bw)>>, "call")
    /\ HexIdle
    /\ CwIdle

SpecAttempt == InitAttempt /\ [][Next]_vars

\* A batch: up to MaxAttempts rows with rising ticks, 0.25 s apart.
RisingLog(n) == LogOf([i \in 1..n |-> (i - 1) * 14400])

BatchLogs ==
    {RisingLog(0) \o <<"0", "g", "1">>, RisingLog(1), RisingLog(3), RisingLog(MaxTicks),
     RisingLog(MaxTicks) \o <<"0", "g", "1">>, RisingLog(MaxTicks - 1) \o BadChunk}

Init ==
    /\ \E n \in 0..MaxAttempts :
          \E logs \in [1..n -> BatchLogs], sms \in [1..n -> {0, 2692}] :
              TransformInit([i \in 1..n |-> InputRow(logs[i], i, "Doe", sms[i], 2)], "call")
    /\ HexIdle
    /\ CwIdle

Spec == Init /\ [][Next]_vars

(***************************************************************************)
(* hex_to_int called on its own                                            *)
(***************************************************************************)
CallHexToInt ==
    /\ ~hex_out.done
    /\ hex_out' = [done |-> TRUE] @@ hex_to_int(hex_str)
    /\ UNCHANGED <<hex_str, hex_v, transformVars, cwVars>>

NextHex == CallHexToInt

\* 16-bit halves of the values encoded.
Limbs == {0, 1, 255, 256, 28800, 65535}

\* Two-character pieces of the chunks decoded.
Pairs == {<<"0", "0">>, <<"a", "9">>, <<"F", "f">>, <<"+", "1">>, <<"-", "1">>,
          <<"0", "x">>, <<"0", "X">>, <<"1", "_">>, <<"_", "1">>, <<" ", "1">>,
          <<"1", " ">>, <<"g", "1">>}

InitHex ==
    /\ \/ \E hi \in Limbs, lo \in Limbs :
            /\ hex_v = <<hi, lo>>
            /\ hex_str = EncodeLE(hi, lo)
       \/ \E p \in [1..4 -> Pairs] :
            /\ hex_v = <<>>
            /\ hex_str = p[1] \o p[2] \o p[3] \o p[4]
    /\ hex_out = [done |-> FALSE, ok |-> FALSE, neg |-> FALSE, hi |-> 0, lo |-> 0]
    /\ TransformInit(<<>>, "idle")
    /\ CwIdle

SpecHex == InitHex /\ [][NextHex]_vars

(***************************************************************************)
(* calc_window called on its own                                           *)
(***************************************************************************)
CallCalcWindow ==
    /\ cw_out.status = "idle"
    /\ cw_out' = [status |-> "returned",
                  value |-> calc_window(cw_args.current_time, cw_args.frame,
                                        cw_args.type_measurement)]
    /\ UNCHANGED <<cw_args, transformVars, hexVars>>

NextCw == CallCalcWindow

MaxWindowRows == 2

WindowRows ==
    [index : {0}, time_test : {Num(0), Num(28800), Num(57600)},
     rpm : {Num(16), Num(33), Inf(1)},
     power_brake : {Fin(1), Inf(1)}, power_kinetic : {Fin(-1), Inf(-1)}]

InitCw ==
    /\ \E n \in 0..MaxWindowRows :
          \E rows \in [1..n -> WindowRows], t \in {Num(0), Num(57600)},
             kind \in {"power", "rpm", "torque", ""} :
              cw_args = [current_time |-> t,
                         frame |-> [i \in 1..n |-> [rows[i] EXCEPT !.index = i - 1]],
                         type_measurement |-> kind]
    /\ cw_out = [status |-> "idle", value |-> NaN]
    /\ TransformInit(<<>>, "idle")
    /\ HexIdle

SpecCw == InitCw /\ [][NextCw]_vars

(***************************************************************************)
(* Properties                                                              *)
(***************************************************************************)
\* The loop has just finished row idx - 1: secs holds its ticks, res_df its series.
AttemptDone == pc = "loop" /\ idx > 1

IndexLabels(frame) == [i \in 1..Len(frame) |-> frame[i].index]

Increasing(q) == \A i \in 1..(Len(q) - 1) : q[i] < q[i + 1]

Range(q) == {q[i] : i \in 1..Len(q)}

\* Sample j (0-based, j >= 2) of an attempt has a NaN or a missing value, stated
\* on the ticks t, the Magnets m, the brake weight bw and the name.
SampleUndefined(j, t, m, bw, name) ==
    LET a == t[j + 1]
        b == t[j]
        c == t[j - 1]
    IN  \/ name = "None"
        \/ bw = 0 /\ (m = 0 \/ a = c)
        \/ a = b /\ b = c
        \/ (m = 0 \/ a = c) /\ Abs(a - b) = Abs(b - c)

\* C1 as stated: an attempt of N >= 4 ticks yields exactly the samples 3..N-1,
\* whatever the tick values.
C1_ExactlyThreeRemoved ==
    (AttemptDone /\ Len(secs) >= 4)
        => IndexLabels(res_df) = [i \in 1..(Len(secs) - 3) |-> i + 2]

\* C1 amended: the series of an attempt of N >= 4 ticks holds, in tick order,
\* the samples of index >= 2 that have no NaN and no missing value, except the
\* first of them; a sample whose values are infinite but not NaN is kept. It is
\* the N-3 samples 3..N-1 exactly when no sample of index >= 2 is undefined.
C1_DefinedSamplesButFirst ==
    (AttemptDone /\ Len(secs) >= 4)
        => LET r == df[idx - 1]
               n == Len(secs)
               m == MagnetsOf(r.SamplingMagnets).v
               defined == {j \in 2..(n - 1) :
                             ~SampleUndefined(j, secs, m, r.BrakeWeight, r.LastName)}
               first == CHOOSE j \in defined : \A k \in defined : j <= k
               expected == IF defined = {} THEN {} ELSE defined \ {first}
           IN  /\ Increasing(IndexLabels(res_df))
               /\ Range(IndexLabels(res_df)) = expected
               /\ (defined = 2..(n - 1)
                     <=> IndexLabels(res_df) = [i \in 1..(n - 3) |-> i + 2])

\* C1 witness: an attempt of at least 4 ticks whose series keeps a sample with an
\* infinite value and has lost a sample of index >= 3 to a NaN.
C1_Witness ==
    /\ AttemptDone
    /\ Len(secs) >= 4
    /\ \E i \in 1..Len(res_df) : IsInf(res_df[i].power_kinetic)
    /\ Len(res_df) < Len(secs) - 3
    /\ Len(res_df) > 0

Completion == [message |-> "Monark dataset has been processed",
               stage |-> 1, total_stages |-> 1]

\* C2 as stated: one notice at entry; the completion notice (stage 1 of 1) is
\* emitted if and only if transform returns a dataset; a call that ends in an
\* error has emitted the entry notice only.
C2_CompletionIffReturned ==
    /\ pc \notin {"call", "idle"} => (Len(progress) >= 1 /\ progress[1].stage = 0)
    /\ pc \in {"loop", "decoded", "built"} => Len(progress) = 1
    /\ (\E i \in 1..Len(progress) : progress[i] = Completion) <=> pc = "returned"
    /\ pc = "raised" => Len(progress) = 1

\* The rows of the input whose processing raises: a chunk int() rejects, a zero
\* SamplingMagnets, or no tick at all.
RowFails(r) ==
    \/ \E i \in 1..(Len(r.FlyWheelLog) \div 8) :
          ~hex_to_int(Slice(r.FlyWheelLog, (i - 1) * 8, i * 8)).ok
    \/ r.SamplingMagnets = 0
    \/ Len(r.FlyWheelLog) < 8

FailingRows == {i \in 1..Len(df) : RowFails(df[i])}

\* C3: if the processing of an attempt raises, no dataset is returned, whatever
\* number of earlier attempts was processed, and the error is the one of the
\* first failing attempt in input order.
C3_FirstErrorAbortsBatch ==
    /\ (pc = "raised" /\ err.row > 0)
          => /\ result = <<>>
             /\ err.row \in FailingRows
             /\ \A i \in FailingRows : err.row <= i
             /\ Len(dfs) = err.row - 1
    /\ FailingRows # {} => pc # "returned"
    /\ (FailingRows # {} /\ pc = "raised") => err.row > 0

\* C3 witness: the second attempt raised after the first one had produced rows.
C3_Witness ==
    /\ pc = "raised"
    /\ err.row = 2
    /\ Len(dfs) = 1
    /\ Len(dfs[1]) > 0
    /\ result = <<>>

\* C5: a zero SamplingMagnets raises at line 76 when Magnets is computed, the
\* batch returns no rows, and no frame ever holds a Magnets made from it.
C5_ZeroSamplingMagnetsRaises ==
    /\ pc = "built" => df[idx].SamplingMagnets # 0
    /\ \A i \in 1..Len(dfs) : df[i].SamplingMagnets # 0
    /\ (pc = "raised" /\ err.row > 0 /\ df[err.row].SamplingMagnets = 0 /\ err.line # 66)
          => (err = Raised("ZeroDivisionError", 76, err.row) /\ result = <<>>)
    /\ (pc = "raised" /\ err.line = 76) => df[err.row].SamplingMagnets = 0
    /\ (\E i \in 1..Len(df) : df[i].SamplingMagnets = 0) => pc # "returned"

\* C5 witness: the second attempt has a zero SamplingMagnets and raised at line 76
\* after the first attempt had produced rows.
C5_Witness ==
    /\ pc = "raised"
    /\ err = Raised("ZeroDivisionError", 76, 2)
    /\ df[2].SamplingMagnets = 0
    /\ Len(dfs) = 1
    /\ Len(dfs[1]) > 0

\* C9: the returned dataset holds the attempts' series in input order, each in
\* tick order: rows are ordered by (attempt, tick index), the rows of attempt a
\* are its series, and each row carries the chunk of its tick index.
C9_InputOrderThenTickOrder ==
    pc = "returned"
        => /\ \A i \in 1..(Len(result) - 1) :
                 \/ result[i].Attempt < result[i + 1].Attempt
                 \/ /\ result[i].Attempt = result[i + 1].Attempt
                    /\ result[i].index < result[i + 1].index
           /\ \A a \in 1..Len(df) :
                 LET OfAttempt(r) == r.Attempt = a IN SelectSeq(result, OfAttempt) = dfs[a]
           /\ \A i \in 1..Len(result) :
                 result[i].hex = Slice(df[result[i].Attempt].FlyWheelLog,
                                       result[i].index * 8, result[i].index * 8 + 8)

\* C9 witness: a dataset of two attempts with at least two rows each.
C9_Witness ==
    /\ pc = "returned"
    /\ Len(df) >= 2
    /\ Cardinality({i \in 1..Len(result) : result[i].Attempt = 1}) >= 2
    /\ Cardinality({i \in 1..Len(result) : result[i].Attempt = 2}) >= 2

\* C10: the tick count is floor(len / 8) and the fragment is never decoded; with
\* a non-zero SamplingMagnets, 1 to 3 ticks give a series of zero rows and the
\* call returns, and 0 ticks raise at the lookup of the first tick (line 78).
C10_ShortLogs ==
    LET r == df[1]
        n == Len(r.FlyWheelLog) \div 8
        valid == \A i \in 1..n : hex_to_int(Slice(r.FlyWheelLog, (i - 1) * 8, i * 8)).ok
    IN  (pc \notin {"call", "idle"} /\ Len(df) = 1 /\ valid)
        => /\ ~(pc = "raised" /\ err.line = 66)
           /\ pc \in {"decoded", "built", "returned"}
                 => (Len(secs) = n /\ Len(bufs) = n)
           /\ (pc \in {"returned", "raised"} /\ r.SamplingMagnets # 0 /\ n = 0)
                 => err = Raised("IndexError", 78, 1)
           /\ (pc \in {"returned", "raised"} /\ r.SamplingMagnets # 0 /\ n \in 1..3)
                 => (pc = "returned" /\ result = <<>> /\ dfs = << <<>> >>)
           /\ (pc = "raised" /\ err.line = 78) => n = 0

\* C10 witness: a log of 3 chunks and a fragment has returned a dataset of no rows.
C10_Witness ==
    /\ pc = "returned"
    /\ Len(df) = 1
    /\ Len(df[1].FlyWheelLog) = 27
    /\ Len(secs) = 3
    /\ result = <<>>

\* The mean of a window as the claim states it: over every sample of the window.
PlainMean(terms, labels, exact) ==
    IF \E i \in 1..Len(terms) : IsNaN(terms[i])
    THEN NaN
    ELSE SumOverCount(terms, labels, exact)

\* C8 as stated: power_centered (rpm_centered) of a sample is the mean, rounded
\* to 2 decimals, of power_brake + power_kinetic (rpm) over the samples of the
\* attempt's finished series strictly less than 0.5 s away in time_test.
C8_CenteredIsWindowMean ==
    AttemptDone
        => \A i \in 1..Len(res_df) :
              LET s == res_df[i]
                  tt(j) == (secs[j + 1] - secs[1]) + (secs[j] - secs[1])
                  Near(r) == Abs(tt(r.index) - tt(s.index)) < F
                  w == SelectSeq(res_df, Near)
                  labels == [a \in 1..Len(w) |-> w[a].index]
              IN  /\ s.power_centered =
                        PlainMean([a \in 1..Len(w) |->
                                      FAdd(w[a].power_brake, w[a].power_kinetic)],
                                  labels, FALSE)
                  /\ s.rpm_centered =
                        PlainMean([a \in 1..Len(w) |-> w[a].rpm], labels, TRUE)

\* C4 as stated: calc_window fails for every type_measurement other than "power"
\* and "rpm"; it never returns a number for another kind.
C4_UnknownKindFails ==
    cw_out.status = "returned" => cw_args.type_measurement \in {"power", "rpm"}

IsHexDigit(c) == \E i \in 1..16 : c = HexChars[i] \/ c = LowerHexChars[i]

\* C6 as stated: hex_to_int fails for every 8-character chunk holding a character
\* that is no hex digit, and returns an integer only for 8 hex digits.
C6_NonHexRejected ==
    (hex_out.done /\ Len(hex_str) = 8)
        => (hex_out.ok <=> \A i \in 1..8 : IsHexDigit(hex_str[i]))

\* C7: the chunk made of the four bytes of a 32-bit value v in reversed order,
\* hex-encoded, decodes to v; every chunk of 8 hex digits decodes to a value in
\* [0, 2^32 - 1]; "01000000" gives 1 and "FFFFFFFF" gives 4294967295.
C7_ByteOrderRoundTrip ==
    hex_out.done
        => /\ hex_v # <<>>
                => (hex_out.ok /\ ~hex_out.neg /\ <<hex_out.hi, hex_out.lo>> = hex_v)
           /\ (\A i \in 1..Len(hex_str) : IsHexDigit(hex_str[i]))
                => /\ hex_out.ok /\ ~hex_out.neg
                   /\ hex_out.hi \in 0..65535 /\ hex_out.lo \in 0..65535
           /\ hex_str = <<"0", "1", "0", "0", "0", "0", "0", "0">>
                => (hex_out.ok /\ ~hex_out.neg /\ hex_out.hi = 0 /\ hex_out.lo = 1)
           /\ hex_str = <<"F", "F", "F", "F", "F", "F", "F", "F">>
                => (hex_out.ok /\ ~hex_out.neg /\ hex_out.hi = 65535 /\ hex_out.lo = 65535)

\* C7 witness: 1 * 65536 + 28800 encoded as "80700100" has been decoded to itself.
C7_Witness ==
    /\ hex_out.done
    /\ hex_v = <<1, 28800>>
    /\ hex_str = <<"8", "0", "7", "0", "0", "1", "0", "0">>
    /\ hex_out.ok
    /\ <<hex_out.hi, hex_out.lo>> = hex_v

====
